---- MODULE Spec2Model ----
(***************************************************************************)
(* A model of the Catchpoint REST client (catchpoint.py): the token cache  *)
(* kept by Catchpoint._get_headers, the dispatcher _call / _make_request,  *)
(* the time resolver _format_time and the six endpoint methods.            *)
(*                                                                         *)
(* Python values are tagged records.  Strings whose content is converted   *)
(* by the code (the access token, expires_in given as text) are sequences  *)
(* of byte values; other strings are TLA+ strings.  The module follows     *)
(* Python 2, the dialect the code is written in (base64.b64encode of a     *)
(* str, ordering comparisons between a str and an int).                    *)
(***************************************************************************)
EXTENDS Integers, Sequences, FiniteSets, TLC

VARIABLES
    callers,          \* the callers that use the one shared client
    suite,            \* which inputs the run draws from: "cache", "args", "shared" or "clock"
    clock,            \* the wall clock, in whole seconds since construction
    headers,          \* self._headers
    token_expires_on, \* self._token_expires_on
    pc,               \* where each caller is in its endpoint call
    call,             \* the arguments of each caller's endpoint call
    params,           \* the params the endpoint method built
    now,              \* the local `now` of _get_headers
    auth_token,       \* the local `auth_token` of _get_headers
    log,              \* the requests each caller's call has handed to the transport
    outcome,          \* how each caller's call ended
    decided,          \* what _get_headers saw when it chose to reuse or refresh
    tokSerial,        \* the number of token responses received
    authGen,          \* the token response that wrote headers["Authorization"]
    lastOk,           \* the most recent token response stored in full
    lastFail          \* the most recent refresh that ended in an error

vars == <<callers, suite, clock, headers, token_expires_on, pc, call, params, now,
          auth_token, log, outcome, decided, tokSerial, authGen,
          lastOk, lastFail>>

(***************************************************************************)
(* Bounds of the model.                                                    *)
(***************************************************************************)
MaxClock == 61
MaxTokenRequests == 3

Threads == {1, 2}

\* the moments at which the clock is looked at: construction, and the seconds
\* around one safety buffer later
ClockValues == {0} \cup 59..MaxClock

(***************************************************************************)
(* Program constants.                                                      *)
(***************************************************************************)
_TOKEN_EXPIRATION_SAFETY_BUFFER == 60

\* datetime(MINYEAR, 1, 1, tzinfo=pytz.utc): a moment before every clock value
DatetimeMinYear == [sec |-> 0 - 2000000000, usec |-> 0, off |-> 0]

(***************************************************************************)
(* Python values.                                                          *)
(***************************************************************************)
PyNone == [t |-> "None", n |-> 0, s |-> ""]
PyInt(n) == [t |-> "int", n |-> n, s |-> ""]
\* a float, held as a number of halves: PyFloat(-3) is -1.5
PyFloat(h) == [t |-> "float", n |-> h, s |-> ""]
PyStr(s) == [t |-> "str", n |-> 0, s |-> s]

\* JSON values of a token body; a str is a sequence of bytes
JAbsent == [t |-> "absent", n |-> 0, b |-> <<>>]
JNum(n) == [t |-> "num", n |-> n, b |-> <<>>]
JStr(b) == [t |-> "str", n |-> 0, b |-> b]

\* datetime values: seconds, microseconds and the zone's offset from UTC
Datetime(sec, usec, off) == [sec |-> sec, usec |-> usec, off |-> off]

ReplaceMicrosecond0(dt) == [dt EXCEPT !.usec = 0]

DatetimeLess(a, b) == a.sec < b.sec \/ (a.sec = b.sec /\ a.usec < b.usec)

PlusSeconds(dt, secs) == [dt EXCEPT !.sec = dt.sec + secs]

Microseconds == {0, 500000}

(***************************************************************************)
(* base64.b64encode over byte sequences, giving the ASCII codes of the     *)
(* encoded text.                                                           *)
(***************************************************************************)
B64Char(i) ==
    IF i < 26 THEN 65 + i
    ELSE IF i < 52 THEN 97 + (i - 26)
    ELSE IF i < 62 THEN 48 + (i - 52)
    ELSE IF i = 62 THEN 43
    ELSE 47

B64Pad == <<61>>

\* as b64encode, with the bytes passed through unencoded
RECURSIVE b64encode_plain(_)
b64encode_plain(s) ==
    IF Len(s) = 0 THEN <<>>
    ELSE <<s[1]>> \o b64encode_plain(Tail(s))

RECURSIVE b64encode(_)
b64encode(s) ==
    IF Len(s) = 0 THEN <<>>
    ELSE IF Len(s) = 1 THEN
        LET v == s[1] * 65536
        IN  <<B64Char((v \div 262144) % 64), B64Char((v \div 4096) % 64)>>
            \o B64Pad \o B64Pad
    ELSE IF Len(s) = 2 THEN
        LET v == s[1] * 65536 + s[2] * 256
        IN  <<B64Char((v \div 262144) % 64), B64Char((v \div 4096) % 64),
              B64Char((v \div 64) % 64)>> \o B64Pad
    ELSE
        LET v == s[1] * 65536 + s[2] * 256 + s[3]
        IN  <<B64Char((v \div 262144) % 64), B64Char((v \div 4096) % 64),
              B64Char((v \div 64) % 64), B64Char(v % 64)>>
            \o b64encode(SubSeq(s, 4, Len(s)))

\* the ASCII codes of "Bearer "
BearerPrefix == <<66, 101, 97, 114, 101, 114, 32>>

(***************************************************************************)
(* int(): of a JSON number the number, of a str its decimal value; a str   *)
(* that is no decimal numeral raises ValueError.                           *)
(***************************************************************************)
IsDigit(b) == b >= 48 /\ b <= 57

IsNumeral(s) == Len(s) > 0 /\ \A i \in 1..Len(s) : IsDigit(s[i])

RECURSIVE NumeralValue(_)
NumeralValue(s) ==
    IF Len(s) = 0 THEN 0
    ELSE NumeralValue(SubSeq(s, 1, Len(s) - 1)) * 10 + (s[Len(s)] - 48)

\* int(x) of a JSON value: [ok, n]
JsonInt(x) ==
    IF x.t = "num" THEN [ok |-> TRUE, n |-> x.n]
    ELSE IF IsNumeral(x.b) THEN [ok |-> TRUE, n |-> NumeralValue(x.b)]
    ELSE [ok |-> FALSE, n |-> 0]

\* int(x) of a Python int or float: a float is truncated towards zero
PyIntOf(x) ==
    IF x.t = "float"
    THEN (IF x.n >= 0 THEN x.n \div 2 ELSE 0 - ((0 - x.n) \div 2))
    ELSE x.n

\* x >= 0 in Python 2: a str orders after every number
GreaterEqualZero(x) ==
    IF x.t = "str" THEN TRUE ELSE x.n >= 0

(***************************************************************************)
(* Exceptions and the ways a call ends.  A CatchpointError carries one     *)
(* message, formatted from the response's status code, reason and body.    *)
(***************************************************************************)
NoJson == [t |-> "none"]

NoOutcome == [kind |-> "none", type |-> "", msg |-> <<>>, value |-> NoJson]

Returned(json) ==
    [kind |-> "return", type |-> "", msg |-> <<>>, value |-> json]

Raised(type, msg) ==
    [kind |-> "raise", type |-> type, msg |-> msg, value |-> NoJson]

\* sys.exit(msg): SystemExit ends the caller
Exited(msg) ==
    [kind |-> "exit", type |-> "SystemExit", msg |-> msg, value |-> NoJson]

CatchpointErrorMsg(res) ==
    <<res.status_code, " ", res.reason, " was returned. Body: ", res.content>>

(***************************************************************************)
(* The transport, requests.request: the responses it may give.             *)
(***************************************************************************)
Statuses == {199, 200, 299, 300, 404}
Reasons == {"OK", "Not Found"}

Response(status, reason, content, json) ==
    [status_code |-> status, reason |-> reason, content |-> content,
     json |-> json]

ResourceBodies ==
    { [content |-> "{items: 0}", json |-> [t |-> "dict", items |-> 0]],
      [content |-> "{items: 1}", json |-> [t |-> "dict", items |-> 1]] }

ErrorBodies == { [content |-> "denied", json |-> NoJson] }

\* a resource body under every status, and the error body under the others
ResourceResponses ==
    { Response(st, r, b.content, b.json) :
        st \in Statuses, r \in Reasons, b \in ResourceBodies }
    \cup
    { Response(st, r, b.content, b.json) :
        st \in Statuses \ {200, 299}, r \in Reasons, b \in ErrorBodies }

\* "Ma" and "Many"
AccessTokens == { <<77, 97>>, <<77, 97, 110, 121>> }

AccessTokenValues == {JAbsent, JNum(7)} \cup { JStr(tok) : tok \in AccessTokens }

\* 59, 120, the text "61" and the text "abc"
ExpiresInValues ==
    {JAbsent, JNum(59), JNum(120), JStr(<<54, 49>>), JStr(<<97, 98, 99>>)}

TokenBody(a, e) ==
    [content |-> "{token}",
     json |-> [t |-> "dict", access_token |-> a, expires_in |-> e]]

\* a body without a usable access_token, or one with each expires_in
TokenBodies ==
    { TokenBody(JAbsent, JNum(120)), TokenBody(JNum(7), JNum(120)) }
    \cup { TokenBody(JStr(tok), e) : tok \in AccessTokens, e \in ExpiresInValues }

TokenResponses ==
    { Response(st, "OK", b.content, b.json) :
        st \in {200, 299}, b \in TokenBodies }
    \cup
    { Response(st, r, b.content, b.json) :
        st \in Statuses \ {200, 299}, r \in Reasons, b \in ErrorBodies }

(***************************************************************************)
(* Catchpoint._make_request: the outcome for a response of the transport.  *)
(***************************************************************************)
\* as _make_request, with the body left out of the message
_make_request_nobody(res) ==
    IF res.status_code < 200 \/ res.status_code > 299
    THEN Raised("CatchpointError",
                <<res.status_code, " ", res.reason, " was returned.">>)
    ELSE Returned(res.json)

\* as _make_request, with 300 taken for a success
_make_request_wide(res) ==
    IF res.status_code < 200 \/ res.status_code > 300
    THEN Raised("CatchpointError", CatchpointErrorMsg(res))
    ELSE Returned(res.json)

_make_request(res) ==
    IF res.status_code < 200 \/ res.status_code > 299
    THEN Raised("CatchpointError", CatchpointErrorMsg(res))
    ELSE Returned(res.json)

(***************************************************************************)
(* pytz.timezone: the zones it knows, with their offsets from UTC in       *)
(* seconds; every other name raises UnknownTimeZoneError.                  *)
(***************************************************************************)
KnownZones == {"UTC", "Asia/Tokyo"}

UtcOffset(tz) == IF tz = "Asia/Tokyo" THEN 32400 ELSE 0

\* strftime('%Y-%m-%dT%H:%M:%S'): the wall-clock second in the datetime's zone
Strftime(dt) == [t |-> "str", n |-> dt.sec + dt.off, s |-> "%Y-%m-%dT%H:%M:%S"]

(***************************************************************************)
(* Catchpoint._format_time.  dtnow is what datetime.now(zone) returns.     *)
(* The result is the pair returned, or the sys.exit message.               *)
(***************************************************************************)
StartTimeMsg ==
    <<"When using relative times, startTime must be a negative number (number of minutes minus 'now').">>

TimezoneMsg(tz) ==
    <<"Unknown Timezone '", tz, "'", "\n",
      "Use tz database format: http://en.wikipedia.org/wiki/List_of_tz_database_time_zones">>

\* as _format_time, with an unknown zone read as UTC
_format_time_anyzone(startTime, endTime, tz, dtnow) ==
    IF endTime.t # "None" /\ startTime.t # "None" /\ endTime = PyStr("now")
    THEN IF startTime.t # "int" /\ GreaterEqualZero(startTime)
         THEN [exit |-> TRUE, msg |-> StartTimeMsg,
               startTime |-> startTime, endTime |-> endTime]
         ELSE LET endDt == ReplaceMicrosecond0(dtnow)
                  startDt == PlusSeconds(endDt, 60 * PyIntOf(startTime))
              IN  [exit |-> FALSE, msg |-> <<>>,
                   startTime |-> Strftime(startDt), endTime |-> Strftime(endDt)]
    ELSE [exit |-> FALSE, msg |-> <<>>, startTime |-> startTime, endTime |-> endTime]

\* as _format_time, with the relative startTime read as seconds
_format_time_seconds(startTime, endTime, tz, dtnow) ==
    IF endTime.t # "None" /\ startTime.t # "None" /\ endTime = PyStr("now")
    THEN IF startTime.t # "int" /\ GreaterEqualZero(startTime)
         THEN [exit |-> TRUE, msg |-> StartTimeMsg,
               startTime |-> startTime, endTime |-> endTime]
         ELSE IF tz \notin KnownZones
         THEN [exit |-> TRUE, msg |-> TimezoneMsg(tz),
               startTime |-> startTime, endTime |-> endTime]
         ELSE LET endDt == ReplaceMicrosecond0(dtnow)
                  startDt == PlusSeconds(endDt, PyIntOf(startTime))
              IN  [exit |-> FALSE, msg |-> <<>>,
                   startTime |-> Strftime(startDt), endTime |-> Strftime(endDt)]
    ELSE [exit |-> FALSE, msg |-> <<>>, startTime |-> startTime, endTime |-> endTime]

\* as _format_time, with the zone looked up before the bounds are tested
_format_time_eager(startTime, endTime, tz, dtnow) ==
    IF tz \notin KnownZones
    THEN [exit |-> TRUE, msg |-> TimezoneMsg(tz),
          startTime |-> startTime, endTime |-> endTime]
    ELSE IF endTime.t # "None" /\ startTime.t # "None" /\ endTime = PyStr("now")
    THEN IF startTime.t # "int" /\ GreaterEqualZero(startTime)
         THEN [exit |-> TRUE, msg |-> StartTimeMsg,
               startTime |-> startTime, endTime |-> endTime]
         ELSE LET endDt == ReplaceMicrosecond0(dtnow)
                  startDt == PlusSeconds(endDt, 60 * PyIntOf(startTime))
              IN  [exit |-> FALSE, msg |-> <<>>,
                   startTime |-> Strftime(startDt), endTime |-> Strftime(endDt)]
    ELSE [exit |-> FALSE, msg |-> <<>>, startTime |-> startTime, endTime |-> endTime]

_format_time(startTime, endTime, tz, dtnow) ==
    IF endTime.t # "None" /\ startTime.t # "None" /\ endTime = PyStr("now")
    THEN IF startTime.t # "int" /\ GreaterEqualZero(startTime)
         THEN [exit |-> TRUE, msg |-> StartTimeMsg,
               startTime |-> startTime, endTime |-> endTime]
         ELSE IF tz \notin KnownZones
         THEN [exit |-> TRUE, msg |-> TimezoneMsg(tz),
               startTime |-> startTime, endTime |-> endTime]
         ELSE LET endDt == ReplaceMicrosecond0(dtnow)
                  startDt == PlusSeconds(endDt, 60 * PyIntOf(startTime))
              IN  [exit |-> FALSE, msg |-> <<>>,
                   startTime |-> Strftime(startDt), endTime |-> Strftime(endDt)]
    ELSE [exit |-> FALSE, msg |-> <<>>, startTime |-> startTime, endTime |-> endTime]

(***************************************************************************)
(* The endpoint methods up to their call of _call: the params they build.  *)
(***************************************************************************)
NoDict == [k \in {} |-> PyNone]

\* no params keyword is passed
ParamsAbsent == [t |-> "absent", d |-> NoDict]
ParamsNone == [t |-> "None", d |-> NoDict]
ParamsDict(d) == [t |-> "dict", d |-> d]

TimeDict(startTime, endTime) ==
    [k \in {"startTime", "endTime"} |->
        IF k = "startTime" THEN startTime ELSE endTime]

WithTests(d, tests) ==
    [k \in DOMAIN d \cup {"tests"} |-> IF k = "tests" THEN tests ELSE d[k]]

TimedMethods == {"raw", "favorite_data"}
PlainMethods == {"favorite_charts", "favorite_details", "nodes", "node"}

Uri(method) ==
    CASE method = "raw" -> "performance/raw/{0}"
      [] method = "favorite_charts" -> "performance/favoriteCharts"
      [] method = "favorite_details" -> "performance/favoriteCharts/{0}"
      [] method = "favorite_data" -> "performance/favoriteCharts/{0}/data"
      [] method = "nodes" -> "nodes"
      [] OTHER -> "nodes/{0}"

\* raw, lines 191-198: [exit, msg, raised, params]
raw_params(c, dtnow) ==
    LET ft == _format_time(c.startTime, c.endTime, c.tz, dtnow)
    IN  [exit |-> ft.exit, msg |-> ft.msg, raised |-> FALSE,
         params |-> ParamsDict(TimeDict(ft.startTime, ft.endTime))]

\* favorite_data, lines 256-270; params['tests'] = tests on params None is a TypeError
favorite_data_params(c, dtnow) ==
    LET ft == _format_time(c.startTime, c.endTime, c.tz, dtnow)
        p == IF ft.endTime.t = "None" \/ ft.startTime.t = "None"
             THEN ParamsNone
             ELSE ParamsDict(TimeDict(ft.startTime, ft.endTime))
    IN  IF ft.exit
        THEN [exit |-> TRUE, msg |-> ft.msg, raised |-> FALSE, params |-> p]
        ELSE IF c.tests.t # "None"
        THEN IF p.t = "None"
             THEN [exit |-> FALSE, msg |-> <<>>, raised |-> TRUE, params |-> p]
             ELSE [exit |-> FALSE, msg |-> <<>>, raised |-> FALSE,
                   params |-> ParamsDict(WithTests(p.d, c.tests))]
        ELSE [exit |-> FALSE, msg |-> <<>>, raised |-> FALSE, params |-> p]

plain_params(c, dtnow) ==
    [exit |-> FALSE, msg |-> <<>>, raised |-> FALSE, params |-> ParamsAbsent]

EndpointParams(c, dtnow) ==
    IF c.method = "raw" THEN raw_params(c, dtnow)
    ELSE IF c.method = "favorite_data" THEN favorite_data_params(c, dtnow)
    ELSE plain_params(c, dtnow)

(***************************************************************************)
(* The arguments callers pass.                                             *)
(***************************************************************************)
StartTimes ==
    {PyNone, PyInt(0 - 30), PyInt(5), PyFloat(0 - 3), PyFloat(5),
     PyStr("01-02-2015 10:00")}

EndTimes == {PyNone, PyStr("now"), PyStr("01-02-2015 11:00")}

TzNames == {"UTC", "Asia/Tokyo", "Mars/Phobos"}

TestsValues == {PyNone, PyStr("81,82")}

Call(method, startTime, endTime, tz, tests) ==
    [method |-> method, startTime |-> startTime, endTime |-> endTime,
     tz |-> tz, tests |-> tests]

NoCall == Call("", PyNone, PyNone, "UTC", PyNone)

Calls ==
    { Call("raw", s, e, tz, PyNone) :
        s \in StartTimes, e \in EndTimes, tz \in TzNames }
    \cup
    { Call("favorite_data", x[1], x[2], x[3], x[4]) :
        x \in StartTimes \X EndTimes \X TzNames \X TestsValues }
    \cup
    { Call(m, PyNone, PyNone, "UTC", PyNone) : m \in PlainMethods }

\* one call of each endpoint method, and the two calls that end before _call
CacheCalls ==
    { Call(m, PyNone, PyNone, "UTC", PyNone) : m \in PlainMethods }
    \cup
    { Call("raw", PyInt(0 - 30), PyStr("now"), "UTC", PyNone),
      Call("raw", PyStr("01-02-2015 10:00"), PyStr("now"), "UTC", PyNone),
      Call("favorite_data", PyNone, PyNone, "UTC", PyNone),
      Call("favorite_data", PyNone, PyNone, "UTC", PyStr("81,82")) }

\* one good and one bad response of each kind
ArgsTokenResponses ==
    { Response(200, "OK", "{token}",
               TokenBody(JStr(<<77, 97>>), JNum(120)).json),
      Response(404, "Not Found", "denied", NoJson) }

ArgsResourceResponses ==
    { Response(200, "OK", "{items: 0}", [t |-> "dict", items |-> 0]),
      Response(404, "Not Found", "{items: 0}", [t |-> "dict", items |-> 0]) }

\* the calls of the runs about sharing and about lifetimes: one plain endpoint method
SharedCalls == { Call("nodes", PyNone, PyNone, "UTC", PyNone) }

CallInputs ==
    IF suite = "args" THEN Calls
    ELSE IF suite = "cache" THEN CacheCalls
    ELSE SharedCalls

TokenInputs == IF suite = "cache" THEN TokenResponses ELSE ArgsTokenResponses

ResourceInputs ==
    IF suite = "cache" THEN ResourceResponses ELSE ArgsResourceResponses

(***************************************************************************)
(* The state after Catchpoint.__init__, with every caller idle.            *)
(***************************************************************************)
InitialHeaders == [k \in {"Accept"} |-> <<"application/json">>]

NoIssue == [serial |-> 0, token |-> <<>>, at |-> 0, usec |-> 0, expires_in |-> 0]

NoDecision == [set |-> FALSE, issued |-> NoIssue, refresh |-> FALSE, usec |-> 0]

NoAuthToken == [serial |-> 0, json |-> NoJson]

NoNow == Datetime(0, 0, 0)

InitWith(cs, st) ==
    /\ callers = cs
    /\ suite = st
    /\ clock = 0
    /\ headers = InitialHeaders
    /\ token_expires_on = DatetimeMinYear
    /\ pc = [c \in Threads |-> "idle"]
    /\ call = [c \in Threads |-> NoCall]
    /\ params = [c \in Threads |-> ParamsAbsent]
    /\ now = [c \in Threads |-> NoNow]
    /\ auth_token = [c \in Threads |-> NoAuthToken]
    /\ log = [c \in Threads |-> <<>>]
    /\ outcome = [c \in Threads |-> NoOutcome]
    /\ decided = [c \in Threads |-> NoDecision]
    /\ tokSerial = 0
    /\ authGen = 0
    /\ lastOk = NoIssue
    /\ lastFail = 0

\* one caller, sequential use, every response of the transport
Init == InitWith({1}, "cache")

\* one caller, sequential use, every argument of the endpoint methods
InitArgs == InitWith({1}, "args")

\* two callers on one client, their steps interleaved
InitShared == InitWith(Threads, "shared")

\* one caller, with the sub-second part of every clock sample remembered
InitClock == InitWith({1}, "clock")

HasAuthorization(h) == "Authorization" \in DOMAIN h

WithoutAuthorization(h) == [k \in DOMAIN h \ {"Authorization"} |-> h[k]]

WithAuthorization(h, v) ==
    [k \in DOMAIN h \cup {"Authorization"} |->
        IF k = "Authorization" THEN v ELSE h[k]]

Request(method, url, hdrs, p, gen, res) ==
    [method |-> method, url |-> url, headers |-> hdrs, params |-> p,
     gen |-> gen, res |-> res]

\* the call ends: an exception leaves through _call and the endpoint method
Finish(c, result) ==
    /\ pc' = [pc EXCEPT ![c] = "done"]
    /\ outcome' = [outcome EXCEPT ![c] = result]
    /\ auth_token' = [auth_token EXCEPT ![c] = NoAuthToken]

(***************************************************************************)
(* The clock advances.                                                     *)
(***************************************************************************)
Tick ==
    /\ \E t \in ClockValues :
        /\ t > clock
        /\ clock' = t
    /\ UNCHANGED <<callers, suite, headers, token_expires_on, pc, call, params, now,
                   auth_token, log, outcome, decided, tokSerial,
                   authGen, lastOk, lastFail>>

(***************************************************************************)
(* An endpoint method is called and runs up to its call of _call.          *)
(***************************************************************************)
Invoke(c) ==
    /\ pc[c] = "idle"
    /\ tokSerial < MaxTokenRequests
    /\ \E a \in CallInputs, usec \in Microseconds :
        LET r == EndpointParams(a, Datetime(clock, usec, UtcOffset(a.tz)))
        IN  /\ call' = [call EXCEPT ![c] = a]
            /\ params' = [params EXCEPT ![c] = r.params]
            /\ IF r.exit
               THEN /\ pc' = [pc EXCEPT ![c] = "exited"]
                    /\ outcome' = [outcome EXCEPT ![c] = Exited(r.msg)]
                    /\ UNCHANGED auth_token
               ELSE IF r.raised
               THEN Finish(c, Raised("TypeError",
                        <<"'NoneType' object does not support item assignment">>))
               ELSE /\ pc' = [pc EXCEPT ![c] = "get_headers"]
                    /\ UNCHANGED <<outcome, auth_token>>
    /\ UNCHANGED <<callers, suite, clock, headers, token_expires_on, now, log,
                   decided, tokSerial, authGen, lastOk, lastFail>>

(***************************************************************************)
(* Catchpoint._get_headers, lines 62-63: sample the clock, test the expiry.*)
(***************************************************************************)
\* as TokenExpired, with every token taken for expired
TokenExpired_always(expires, at) == TRUE

TokenExpired(expires, at) == DatetimeLess(expires, at)

\* the sub-second part of the sample of line 62, which replace(microsecond=0)
\* drops; it is remembered in the runs that measure lifetimes
SubSecond(usec) == IF suite = "clock" THEN usec ELSE 0

GetHeaders(c) ==
    /\ pc[c] = "get_headers"
    /\ \E usec \in Microseconds :
        LET at == ReplaceMicrosecond0(Datetime(clock, usec, 0))
            refresh == TokenExpired(token_expires_on, at)
        IN  /\ now' = [now EXCEPT ![c] = at]
            /\ decided' = [decided EXCEPT ![c] =
                   [set |-> TRUE, issued |-> lastOk, refresh |-> refresh,
                    usec |-> SubSecond(usec)]]
            /\ pc' = [pc EXCEPT ![c] =
                   IF refresh THEN "check_auth" ELSE "resource_request"]
    /\ UNCHANGED <<callers, suite, clock, headers, token_expires_on, call, params,
                   auth_token, log, outcome, tokSerial, authGen,
                   lastOk, lastFail>>

\* line 65: the test for the old Authorization entry
CheckAuth(c) ==
    /\ pc[c] = "check_auth"
    /\ pc' = [pc EXCEPT ![c] =
           IF HasAuthorization(headers) THEN "del_auth" ELSE "token_request"]
    /\ UNCHANGED <<callers, suite, clock, headers, token_expires_on, call, params,
                   now, auth_token, log, outcome, decided, tokSerial,
                   authGen, lastOk, lastFail>>

\* as RemoveAuth, with the old Authorization entry left in the mapping
RemoveAuth_keep(c) ==
    /\ pc[c] = "del_auth"
    /\ pc' = [pc EXCEPT ![c] = "token_request"]
    /\ UNCHANGED <<callers, suite, clock, headers, token_expires_on, call, params,
                   now, auth_token, log, outcome, decided, tokSerial,
                   authGen, lastOk, lastFail>>

\* line 66: del of a key another caller has deleted since line 65 is a KeyError
RemoveAuth(c) ==
    /\ pc[c] = "del_auth"
    /\ IF HasAuthorization(headers)
       THEN /\ headers' = WithoutAuthorization(headers)
            /\ authGen' = 0
            /\ pc' = [pc EXCEPT ![c] = "token_request"]
            /\ UNCHANGED <<outcome, auth_token>>
       ELSE /\ Finish(c, Raised("KeyError", <<"Authorization">>))
            /\ UNCHANGED <<headers, authGen>>
    /\ UNCHANGED <<callers, suite, clock, token_expires_on, call, params, now,
                   log, decided, tokSerial, lastOk, lastFail>>

\* as TokenRequest, with the error of a failed refresh swallowed
TokenRequest_swallow(c) ==
    /\ pc[c] = "token_request"
    /\ tokSerial' = tokSerial + 1
    /\ \E res \in TokenInputs :
        LET result == _make_request(res)
        IN  /\ log' = [log EXCEPT ![c] = Append(@,
                   Request("POST", "token", headers, ParamsAbsent, authGen, res))]
            /\ IF result.kind = "raise"
               THEN /\ pc' = [pc EXCEPT ![c] = "resource_request"]
                    /\ lastFail' = tokSerial'
                    /\ UNCHANGED <<outcome, auth_token>>
               ELSE /\ auth_token' = [auth_token EXCEPT ![c] =
                           [serial |-> tokSerial', json |-> result.value]]
                    /\ pc' = [pc EXCEPT ![c] = "set_auth"]
                    /\ UNCHANGED <<outcome, lastFail>>
    /\ UNCHANGED <<callers, suite, clock, headers, token_expires_on, call, params,
                   now, decided, authGen, lastOk>>

\* as TokenRequest, with a failed refresh tried again
TokenRequest_retry(c) ==
    /\ pc[c] = "token_request"
    /\ tokSerial' = tokSerial + 1
    /\ \E res \in TokenInputs :
        LET result == _make_request(res)
        IN  /\ log' = [log EXCEPT ![c] = Append(@,
                   Request("POST", "token", headers, ParamsAbsent, authGen, res))]
            /\ IF result.kind = "raise"
               THEN /\ lastFail' = tokSerial'
                    /\ UNCHANGED <<pc, outcome, auth_token>>
               ELSE /\ auth_token' = [auth_token EXCEPT ![c] =
                           [serial |-> tokSerial', json |-> result.value]]
                    /\ pc' = [pc EXCEPT ![c] = "set_auth"]
                    /\ UNCHANGED <<outcome, lastFail>>
    /\ UNCHANGED <<callers, suite, clock, headers, token_expires_on, call, params,
                   now, decided, authGen, lastOk>>

\* lines 70-80: the POST to the token URL, through _make_request
TokenRequest(c) ==
    /\ pc[c] = "token_request"
    /\ tokSerial' = tokSerial + 1
    /\ \E res \in TokenInputs :
        LET result == _make_request(res)
        IN  /\ log' = [log EXCEPT ![c] = Append(@,
                   Request("POST", "token", headers, ParamsAbsent, authGen, res))]
            /\ IF result.kind = "raise"
               THEN /\ Finish(c, result)
                    /\ lastFail' = tokSerial'
               ELSE /\ auth_token' = [auth_token EXCEPT ![c] =
                           [serial |-> tokSerial', json |-> result.value]]
                    /\ pc' = [pc EXCEPT ![c] = "set_auth"]
                    /\ UNCHANGED <<outcome, lastFail>>
    /\ UNCHANGED <<callers, suite, clock, headers, token_expires_on, call, params,
                   now, decided, authGen, lastOk>>

\* lines 83-85
SetAuth(c) ==
    /\ pc[c] = "set_auth"
    /\ LET access_token == auth_token[c].json.access_token
       IN  IF access_token.t = "absent"
           THEN /\ Finish(c, Raised("KeyError", <<"access_token">>))
                /\ lastFail' = auth_token[c].serial
                /\ UNCHANGED <<headers, authGen>>
           ELSE IF access_token.t # "str"
           THEN /\ Finish(c, Raised("TypeError",
                        <<"cannot concatenate 'str' and 'int' objects">>))
                /\ lastFail' = auth_token[c].serial
                /\ UNCHANGED <<headers, authGen>>
           ELSE /\ headers' = WithAuthorization(headers,
                        BearerPrefix \o b64encode(access_token.b))
                /\ authGen' = auth_token[c].serial
                /\ pc' = [pc EXCEPT ![c] = "set_expiry"]
                /\ UNCHANGED <<outcome, lastFail, auth_token>>
    /\ UNCHANGED <<callers, suite, clock, token_expires_on, call, params, now,
                   log, decided, tokSerial, lastOk>>

\* as SetExpiry, with the expiry stamped before expires_in is converted
SetExpiry_stamped(c) ==
    /\ pc[c] = "set_expiry"
    /\ LET expires_in == auth_token[c].json.expires_in
           secs == JsonInt(expires_in)
       IN  IF expires_in.t = "absent"
           THEN /\ Finish(c, Raised("KeyError", <<"expires_in">>))
                /\ lastFail' = auth_token[c].serial
                /\ UNCHANGED <<token_expires_on, lastOk>>
           ELSE IF ~secs.ok
           THEN /\ Finish(c, Raised("ValueError",
                        <<"invalid literal for int() with base 10">>))
                /\ lastFail' = auth_token[c].serial
                /\ token_expires_on' = now[c]
                /\ UNCHANGED lastOk
           ELSE /\ token_expires_on' = PlusSeconds(now[c],
                        secs.n - _TOKEN_EXPIRATION_SAFETY_BUFFER)
                /\ lastOk' = [serial |-> auth_token[c].serial,
                              token |-> auth_token[c].json.access_token.b,
                              at |-> now[c].sec, usec |-> decided[c].usec,
                              expires_in |-> secs.n]
                /\ auth_token' = [auth_token EXCEPT ![c] = NoAuthToken]
                /\ pc' = [pc EXCEPT ![c] = "resource_request"]
                /\ UNCHANGED <<outcome, lastFail>>
    /\ UNCHANGED <<callers, suite, clock, headers, call, params, now, log, decided,
                   tokSerial, authGen>>

\* as SetExpiry, with no safety buffer taken off
SetExpiry_nobuffer(c) ==
    /\ pc[c] = "set_expiry"
    /\ LET expires_in == auth_token[c].json.expires_in
           secs == JsonInt(expires_in)
       IN  IF expires_in.t = "absent"
           THEN /\ Finish(c, Raised("KeyError", <<"expires_in">>))
                /\ lastFail' = auth_token[c].serial
                /\ UNCHANGED <<token_expires_on, lastOk>>
           ELSE IF ~secs.ok
           THEN /\ Finish(c, Raised("ValueError",
                        <<"invalid literal for int() with base 10">>))
                /\ lastFail' = auth_token[c].serial
                /\ UNCHANGED <<token_expires_on, lastOk>>
           ELSE /\ token_expires_on' = PlusSeconds(now[c], secs.n)
                /\ lastOk' = [serial |-> auth_token[c].serial,
                              token |-> auth_token[c].json.access_token.b,
                              at |-> now[c].sec, usec |-> decided[c].usec,
                              expires_in |-> secs.n]
                /\ auth_token' = [auth_token EXCEPT ![c] = NoAuthToken]
                /\ pc' = [pc EXCEPT ![c] = "resource_request"]
                /\ UNCHANGED <<outcome, lastFail>>
    /\ UNCHANGED <<callers, suite, clock, headers, call, params, now, log, decided,
                   tokSerial, authGen>>

\* line 91, then the return of line 94
SetExpiry(c) ==
    /\ pc[c] = "set_expiry"
    /\ LET expires_in == auth_token[c].json.expires_in
           secs == JsonInt(expires_in)
       IN  IF expires_in.t = "absent"
           THEN /\ Finish(c, Raised("KeyError", <<"expires_in">>))
                /\ lastFail' = auth_token[c].serial
                /\ UNCHANGED <<token_expires_on, lastOk>>
           ELSE IF ~secs.ok
           THEN /\ Finish(c, Raised("ValueError",
                        <<"invalid literal for int() with base 10">>))
                /\ lastFail' = auth_token[c].serial
                /\ UNCHANGED <<token_expires_on, lastOk>>
           ELSE /\ token_expires_on' = PlusSeconds(now[c],
                        secs.n - _TOKEN_EXPIRATION_SAFETY_BUFFER)
                /\ lastOk' = [serial |-> auth_token[c].serial,
                              token |-> auth_token[c].json.access_token.b,
                              at |-> now[c].sec, usec |-> decided[c].usec,
                              expires_in |-> secs.n]
                /\ auth_token' = [auth_token EXCEPT ![c] = NoAuthToken]
                /\ pc' = [pc EXCEPT ![c] = "resource_request"]
                /\ UNCHANGED <<outcome, lastFail>>
    /\ UNCHANGED <<callers, suite, clock, headers, call, params, now, log, decided,
                   tokSerial, authGen>>

(***************************************************************************)
(* Catchpoint._call, lines 112-118: the GET, through _make_request, with   *)
(* the headers mapping _get_headers returned.                              *)
(***************************************************************************)
\* as ResourceRequest, with the cached token dropped when the request fails
ResourceRequest_evict(c) ==
    /\ pc[c] = "resource_request"
    /\ \E res \in ResourceInputs :
        /\ log' = [log EXCEPT ![c] = Append(@,
               Request("GET", Uri(call[c].method), headers, params[c], authGen, res))]
        /\ Finish(c, _make_request(res))
        /\ IF _make_request(res).kind = "raise"
           THEN /\ headers' = WithoutAuthorization(headers)
                /\ token_expires_on' = DatetimeMinYear
           ELSE UNCHANGED <<headers, token_expires_on>>
    /\ UNCHANGED <<callers, suite, clock, call, params,
                   now, decided, tokSerial, authGen, lastOk, lastFail>>

ResourceRequest(c) ==
    /\ pc[c] = "resource_request"
    /\ \E res \in ResourceInputs :
        /\ log' = [log EXCEPT ![c] = Append(@,
               Request("GET", Uri(call[c].method), headers, params[c], authGen, res))]
        /\ Finish(c, _make_request(res))
    /\ UNCHANGED <<callers, suite, clock, headers, token_expires_on, call, params,
                   now, decided, tokSerial, authGen, lastOk, lastFail>>

\* the caller has its result and is free to call again
Return(c) ==
    /\ pc[c] = "done"
    /\ pc' = [pc EXCEPT ![c] = "idle"]
    /\ call' = [call EXCEPT ![c] = NoCall]
    /\ params' = [params EXCEPT ![c] = ParamsAbsent]
    /\ now' = [now EXCEPT ![c] = NoNow]
    /\ log' = [log EXCEPT ![c] = <<>>]
    /\ outcome' = [outcome EXCEPT ![c] = NoOutcome]
    /\ decided' = [decided EXCEPT ![c] = NoDecision]
    /\ UNCHANGED <<callers, suite, clock, headers, token_expires_on, auth_token,
                   tokSerial, authGen, lastOk, lastFail>>

Next ==
    \/ Tick
    \/ \E c \in callers : Invoke(c)
    \/ \E c \in callers : GetHeaders(c)
    \/ \E c \in callers : CheckAuth(c)
    \/ \E c \in callers : RemoveAuth(c)
    \/ \E c \in callers : TokenRequest(c)
    \/ \E c \in callers : SetAuth(c)
    \/ \E c \in callers : SetExpiry(c)
    \/ \E c \in callers : ResourceRequest(c)
    \/ \E c \in callers : Return(c)

Spec == Init /\ [][Next]_vars

SpecArgs == InitArgs /\ [][Next]_vars

SpecShared == InitShared /\ [][Next]_vars

SpecClock == InitClock /\ [][Next]_vars

(***************************************************************************)
(* What the claims speak of.                                               *)
(***************************************************************************)
Is2xx(status) == status >= 200 /\ status <= 299

Posts(c) == { i \in 1..Len(log[c]) : log[c][i].method = "POST" }

Gets(c) == { i \in 1..Len(log[c]) : log[c][i].method = "GET" }

LastRequest(c) == log[c][Len(log[c])]

\* the call of caller c went through _call and has ended
Dispatched(c) == pc[c] = "done" /\ decided[c].set

\* the end of the validity window of the token _get_headers found cached
WindowEnd(c) ==
    decided[c].issued.at + decided[c].issued.expires_in
        - _TOKEN_EXPIRATION_SAFETY_BUFFER

C2_ExpiredFromWindowEnd ==
    \A c \in callers :
        (decided[c].set /\ decided[c].issued.serial > 0) =>
            (decided[c].refresh <=> now[c].sec >= WindowEnd(c))

(***************************************************************************)
(* C3: when a token refresh fails (a non-2xx token response, or a token    *)
(* body without access_token or without expires_in), the call ends in an   *)
(* error with no resource request issued, and no resource request is ever  *)
(* sent with the Authorization value that was cached before a refresh that *)
(* failed.                                                                 *)
(***************************************************************************)
FailedTokenResponse(res) ==
    IF ~Is2xx(res.status_code) THEN TRUE
    ELSE \/ res.json.access_token.t = "absent"
         \/ res.json.expires_in.t = "absent"

C3_FailedRefreshEndsCall ==
    \A c \in callers :
        /\ \A i \in Posts(c) :
               FailedTokenResponse(log[c][i].res) =>
                   /\ Gets(c) = {}
                   /\ pc[c] \in {"set_auth", "set_expiry", "done"}
                   /\ pc[c] = "done" => outcome[c].kind = "raise"
        /\ \A j \in Gets(c) :
               ~(log[c][j].gen > 0 /\ log[c][j].gen < lastFail)

\* a resource request sent after a refresh that failed while a token was cached
C3_Witness ==
    \E c \in callers :
        /\ pc[c] = "done"
        /\ lastFail > 1
        /\ \E j \in Gets(c) : log[c][j].gen > lastFail

(***************************************************************************)
(* C4: raw and favorite_data called with endTime = "now" and a startTime   *)
(* that is non-negative or no integer end in a usage error before any      *)
(* request is issued, with the token cache as it was.                      *)
(***************************************************************************)
C4_BadRelativeStartFailsFast ==
    \A c \in callers :
        ( /\ call[c].method \in TimedMethods
          /\ call[c].endTime = PyStr("now")
          /\ call[c].startTime.t # "None"
          /\ (call[c].startTime.t # "int" \/ call[c].startTime.n >= 0) )
        => ( /\ log[c] = <<>>
             /\ outcome[c].kind \in {"none", "exit"} )

(***************************************************************************)
(* C5: _make_request returns the parsed JSON body exactly when the status  *)
(* is within 200..299, both ends included; for every other status it       *)
(* raises an error that carries the status code, the reason phrase and the *)
(* raw body.                                                               *)
(***************************************************************************)
C5_SuccessIff2xx ==
    \A c \in callers :
        log[c] # <<>> =>
            LET req == LastRequest(c)
            IN  IF Is2xx(req.res.status_code)
                THEN /\ outcome[c].type # "CatchpointError"
                     /\ req.method = "GET" =>
                            /\ pc[c] = "done"
                            /\ outcome[c].kind = "return"
                            /\ outcome[c].value = req.res.json
                     /\ (req.method = "POST" /\ pc[c] = "set_auth") =>
                            auth_token[c].json = req.res.json
                ELSE /\ pc[c] = "done"
                     /\ outcome[c].kind = "raise"
                     /\ outcome[c].type = "CatchpointError"
                     /\ outcome[c].msg[1] = req.res.status_code
                     /\ outcome[c].msg[3] = req.res.reason
                     /\ outcome[c].msg[5] = req.res.content

\* a resource request answered with 300 ended in the error
C5_Witness ==
    \E c \in callers :
        /\ pc[c] = "done"
        /\ log[c] # <<>>
        /\ LastRequest(c).method = "GET"
        /\ LastRequest(c).res.status_code = 300
        /\ outcome[c].type = "CatchpointError"

(***************************************************************************)
(* C6, as claimed: a call of raw or favorite_data given an unknown         *)
(* timezone name issues no request, neither a token request nor a resource *)
(* request, whatever its start and end bounds are.                         *)
(***************************************************************************)
C6_UnknownZoneAlwaysFailsFast ==
    \A c \in callers :
        (call[c].method \in TimedMethods /\ call[c].tz \notin KnownZones)
        => ( /\ log[c] = <<>>
             /\ outcome[c].kind # "return" )

(***************************************************************************)
(* C6, amended: a call of raw or favorite_data given an unknown timezone   *)
(* name, both bounds present and endTime = "now", ends in a usage error    *)
(* (SystemExit) at once and issues no request, neither a token request nor *)
(* a resource request.                                                     *)
(***************************************************************************)
C6_UnknownZoneWithNowFailsFast ==
    \A c \in callers :
        ( /\ call[c].method \in TimedMethods
          /\ call[c].tz \notin KnownZones
          /\ call[c].startTime.t # "None"
          /\ call[c].endTime = PyStr("now") )
        => ( /\ pc[c] = "exited"
             /\ outcome[c].kind = "exit"
             /\ log[c] = <<>> )

\* the zone lookup itself ended the call: a valid relative start, an unknown zone
C6_Witness ==
    \E c \in callers :
        /\ call[c].method = "favorite_data"
        /\ call[c].tz = "Mars/Phobos"
        /\ call[c].startTime = PyInt(0 - 30)
        /\ call[c].endTime = PyStr("now")
        /\ pc[c] = "exited"
        /\ outcome[c].msg[1] = "Unknown Timezone '"
        /\ outcome[c].msg[2] = "Mars/Phobos"

(***************************************************************************)
(* C7: every endpoint call issues at most one token request and at most    *)
(* one resource request, the token request before the resource request,    *)
(* and no request follows a failed one within the call.                    *)
(***************************************************************************)
C7_AtMostOneOfEachRequest ==
    \A c \in callers :
        /\ Cardinality(Posts(c)) <= 1
        /\ Cardinality(Gets(c)) <= 1
        /\ \A i \in Posts(c), j \in Gets(c) : i < j
        /\ \A i \in 1..Len(log[c]) :
               ~Is2xx(log[c][i].res.status_code) => i = Len(log[c])

\* a call that refreshed the token and then fetched its resource
C7_Witness ==
    \E c \in callers :
        /\ pc[c] = "done"
        /\ Len(log[c]) = 2
        /\ log[c][1].method = "POST"
        /\ log[c][2].method = "GET"

TimeRangeGiven(a) == a.startTime.t # "None" /\ a.endTime.t # "None"

HasParam(p, k) == p.t = "dict" /\ k \in DOMAIN p.d

C9_OverridesIndependent ==
    \A c \in callers :
        (call[c].method = "favorite_data" /\ outcome[c].kind # "exit") =>
            /\ pc[c] = "done" => log[c] # <<>>
            /\ \A j \in Gets(c) :
                   /\ log[c][j].url = "performance/favoriteCharts/{0}/data"
                   /\ HasParam(log[c][j].params, "startTime")
                          <=> TimeRangeGiven(call[c])
                   /\ HasParam(log[c][j].params, "endTime")
                          <=> TimeRangeGiven(call[c])
                   /\ HasParam(log[c][j].params, "tests")
                          <=> call[c].tests.t # "None"

(***************************************************************************)
(* C10, as claimed: every resource request carries an Authorization header *)
(* of "Bearer " followed by the access_token, unaltered, of the most       *)
(* recent successful token response.                                       *)
(***************************************************************************)
C10_BearerIsTokenItself ==
    \A c \in callers :
        \A j \in Gets(c) :
            /\ HasAuthorization(log[c][j].headers)
            /\ log[c][j].headers["Authorization"] = BearerPrefix \o lastOk.token

(***************************************************************************)
(* C10, amended: every resource request carries an Authorization header of *)
(* "Bearer " followed by the base64 encoding of the access_token of the    *)
(* most recent successful token response.                                  *)
(***************************************************************************)
\* RFC 4648: "Ma" encodes to "TWE=", "Many" to "TWFueQ=="
Base64Text(tok) ==
    IF tok = <<77, 97>> THEN <<84, 87, 69, 61>>
    ELSE IF tok = <<77, 97, 110, 121>> THEN <<84, 87, 70, 117, 101, 81, 61, 61>>
    ELSE <<>>

C10_BearerIsBase64OfToken ==
    \A c \in callers :
        \A j \in Gets(c) :
            /\ HasAuthorization(log[c][j].headers)
            /\ lastOk.serial > 0
            /\ log[c][j].headers["Authorization"]
                   = BearerPrefix \o Base64Text(lastOk.token)

\* a resource request sent with the second token the client obtained, "Many"
C10_Witness ==
    \E c \in callers :
        /\ lastOk.serial > 1
        /\ lastOk.token = <<77, 97, 110, 121>>
        /\ \E j \in Gets(c) :
               log[c][j].headers["Authorization"]
                   = <<66, 101, 97, 114, 101, 114, 32,
                       84, 87, 70, 117, 101, 81, 61, 61>>

(***************************************************************************)
(* C11: with endTime = "now", a negative integer startTime and a zone pytz *)
(* knows, the endpoint method hands _call an endTime that is the clock's   *)
(* second in that zone and a startTime that is that endTime plus startTime *)
(* minutes: the start is not later than the end, the two are               *)
(* |startTime| * 60 seconds apart, and both are written with the format    *)
(* '%Y-%m-%dT%H:%M:%S', which has no zone suffix.                          *)
(***************************************************************************)
RelativeRange(a) ==
    /\ a.method \in TimedMethods
    /\ a.endTime = PyStr("now")
    /\ a.startTime.t = "int"
    /\ a.startTime.n < 0
    /\ a.tz \in KnownZones

NoZoneFormat == "%Y-%m-%dT%H:%M:%S"

C11_Resolved(c) ==
    (pc[c] = "idle" /\ pc'[c] # "idle" /\ RelativeRange(call'[c])) =>
        /\ pc'[c] = "get_headers"
        /\ params'[c].t = "dict"
        /\ LET s == params'[c].d["startTime"]
               e == params'[c].d["endTime"]
           IN  /\ e = [t |-> "str", n |-> clock + UtcOffset(call'[c].tz),
                       s |-> NoZoneFormat]
               /\ s.t = "str" /\ s.s = NoZoneFormat
               /\ s.n <= e.n
               /\ e.n - s.n = (0 - call'[c].startTime.n) * 60

PassThrough(a) ==
    \/ a.startTime.t = "None"
    \/ a.endTime.t = "None"
    \/ a.endTime # PyStr("now")

BoundsAsGiven(c) ==
    /\ params[c].d["startTime"] = call[c].startTime
    /\ params[c].d["endTime"] = call[c].endTime

C12_PassThroughUntouched ==
    \A c \in callers :
        call[c].method \in TimedMethods =>
            /\ PassThrough(call[c]) =>
                   /\ pc[c] # "exited"
                   /\ outcome[c].kind # "exit"
                   /\ call[c].method = "raw" => params[c].t = "dict"
                   /\ params[c].t = "None" => ~TimeRangeGiven(call[c])
                   /\ params[c].t = "dict" => BoundsAsGiven(c)
            /\ (params[c].t = "dict" /\ ~BoundsAsGiven(c)) =>
                   (TimeRangeGiven(call[c]) /\ call[c].endTime = PyStr("now"))

\* an explicit range with a fractional start and a zone pytz does not know
C12_Witness ==
    \E c \in callers :
        /\ call[c] = Call("raw", PyFloat(5), PyStr("01-02-2015 11:00"),
                          "Mars/Phobos", PyNone)
        /\ pc[c] = "done"
        /\ outcome[c].kind = "return"
        /\ \E j \in Gets(c) :
               log[c][j].params =
                   ParamsDict(TimeDict(PyFloat(5), PyStr("01-02-2015 11:00")))

(***************************************************************************)
(* C13: when two callers interleave on one shared client, every resource   *)
(* request sent by either caller carries an Authorization header with a    *)
(* bearer token; duplicate token requests are the only deviation from      *)
(* sequential use.                                                         *)
(***************************************************************************)
IsBearer(v) ==
    /\ Len(v) > Len(BearerPrefix)
    /\ SubSeq(v, 1, Len(BearerPrefix)) = BearerPrefix

C13_EveryResourceRequestAuthorized ==
    \A c \in callers :
        \A j \in Gets(c) :
            /\ HasAuthorization(log[c][j].headers)
            /\ IsBearer(log[c][j].headers["Authorization"])

(***************************************************************************)
(* C14: with one caller, every token request is sent with a headers        *)
(* mapping that has no Authorization entry: the entry of the previous      *)
(* token is removed before the token request, and an entry is added only   *)
(* after a token response that _make_request returned.                     *)
(***************************************************************************)
C14_TokenRequestUnauthorized ==
    \A c \in callers :
        /\ \A i \in Posts(c) :
               /\ ~HasAuthorization(log[c][i].headers)
               /\ log[c][i].gen = 0
        /\ pc[c] \in {"token_request", "set_auth"} => ~HasAuthorization(headers)
        /\ \A i \in Posts(c) :
               HasAuthorization(headers) =>
                   /\ Is2xx(log[c][i].res.status_code)
                   /\ log[c][i].res.json.access_token.t = "str"

\* a token request made while the Authorization entry of a stored token was cached
C14_Witness ==
    \E c \in callers :
        /\ decided[c].set /\ decided[c].refresh
        /\ decided[c].issued.serial > 0
        /\ pc[c] = "set_auth"
        /\ Posts(c) # {}
        /\ ~HasAuthorization(headers)

(***************************************************************************)
(* C15: after a refresh attempt that ends in an error (a non-2xx token     *)
(* response, a body without access_token, or a body with access_token but  *)
(* without a numeric expires_in), the headers mapping has no Authorization *)
(* entry and the stored expiry is what it was before the attempt, so the   *)
(* next call attempts a refresh again.                                     *)
(***************************************************************************)
\* the call of caller c made a token request and ended in its error
RefreshFailed(c) ==
    /\ pc[c] = "done"
    /\ outcome[c].kind = "raise"
    /\ Posts(c) # {}
    /\ Gets(c) = {}

\* the expiry stored when _get_headers of caller c sampled it
ExpiryBefore(c) ==
    IF decided[c].issued.serial = 0 THEN DatetimeMinYear
    ELSE Datetime(WindowEnd(c), 0, 0)

ExpiryUntouched(c) ==
    /\ token_expires_on = ExpiryBefore(c)
    /\ token_expires_on.sec < now[c].sec
    /\ token_expires_on.sec < clock

C15_FailedRefreshLeavesNoToken ==
    \A c \in callers :
        RefreshFailed(c) =>
            /\ ~HasAuthorization(headers)
            /\ ExpiryUntouched(c)

(***************************************************************************)
(* C15, amended: after a refresh attempt that ends in an error the stored  *)
(* expiry is what it was before the attempt, so the next call attempts a   *)
(* refresh again; the headers mapping has no Authorization entry when the  *)
(* token response was non-2xx or its body had no usable access_token, and  *)
(* holds the entry of the new access_token when only expires_in was        *)
(* missing or non-numeric.                                                 *)
(***************************************************************************)
C15_FailedRefreshKeepsExpiry ==
    \A c \in callers :
        RefreshFailed(c) =>
            LET res == LastRequest(c).res
                wrote == /\ Is2xx(res.status_code)
                         /\ res.json.access_token.t = "str"
            IN  /\ ExpiryUntouched(c)
                /\ HasAuthorization(headers) <=> wrote
                /\ wrote =>
                       /\ outcome[c].type \in {"KeyError", "ValueError"}
                       /\ headers["Authorization"] =
                              BearerPrefix \o Base64Text(res.json.access_token.b)

\* expires_in is missing from the body of a refresh made after a token had expired
C15_Witness ==
    \E c \in callers :
        /\ RefreshFailed(c)
        /\ decided[c].issued.serial > 0
        /\ outcome[c] = Raised("KeyError", <<"expires_in">>)
        /\ HasAuthorization(headers)
        /\ token_expires_on = Datetime(60, 0, 0)

(***************************************************************************)
(* C16: with one caller, and a server that counts expires_in from the      *)
(* moment the client sampled its clock before the token request or from    *)
(* later, whenever _get_headers decides to reuse the cached token the      *)
(* token has at least the safety buffer (60 s) of server-side lifetime     *)
(* left at the moment of the decision.                                     *)
(***************************************************************************)
\* the least server-side lifetime, in microseconds, the token found cached by
\* caller c has left at the moment c sampled its clock
RemainingLifetime(c) ==
    (decided[c].issued.at + decided[c].issued.expires_in - now[c].sec)
        * 1000000
    + decided[c].issued.usec - decided[c].usec

C16_ReuseLeavesSafetyBuffer ==
    \A c \in callers :
        (decided[c].set /\ ~decided[c].refresh) =>
            RemainingLifetime(c) >=
                _TOKEN_EXPIRATION_SAFETY_BUFFER * 1000000

(***************************************************************************)
(* C17: a resource request that ends in an error leaves the token cache as *)
(* it was, the Authorization entry and the stored expiry both, and every   *)
(* call made before the stored expiry reuses the stored token: it sends no *)
(* token request and its resource request carries that token.              *)
(***************************************************************************)
ResourceRequestFails(c) ==
    /\ pc[c] = "resource_request"
    /\ pc'[c] = "done"
    /\ outcome'[c].kind = "raise"

CacheUnchanged ==
    /\ headers' = headers
    /\ token_expires_on' = token_expires_on

ReusesStoredToken(c) ==
    /\ ~decided[c].refresh
    /\ Posts(c) = {}
    /\ \A j \in Gets(c) :
           /\ HasAuthorization(log[c][j].headers)
           /\ log[c][j].headers["Authorization"] =
                  BearerPrefix \o Base64Text(decided[c].issued.token)

C17_FailedResourceRequestKeepsCache ==
    /\ [][\A c \in callers : ResourceRequestFails(c) => CacheUnchanged]_vars
    /\ [](\A c \in callers :
             (decided[c].set /\ decided[c].issued.serial > 0
                 /\ now[c].sec < WindowEnd(c)) => ReusesStoredToken(c))

\* a call that reused the stored token, got 404 and left the cache in place
C17_Witness ==
    \E c \in callers :
        /\ pc[c] = "done"
        /\ decided[c].set /\ ~decided[c].refresh
        /\ \E j \in Gets(c) : log[c][j].res.status_code = 404
        /\ outcome[c].kind = "raise"
        /\ HasAuthorization(headers)
        /\ headers["Authorization"] =
               BearerPrefix \o Base64Text(decided[c].issued.token)
        /\ token_expires_on = Datetime(WindowEnd(c), 0, 0)
        /\ clock < WindowEnd(c)

(***************************************************************************)
(* C18: when the token response stored last carried an expires_in below    *)
(* the safety buffer (60 s), the stored expiry lies before the second the  *)
(* token was obtained in, and every endpoint call that follows, in that    *)
(* second or a later one, finds the token expired and sends a token        *)
(* request.                                                                *)
(***************************************************************************)
C18_ShortLivedTokenNeverReused ==
    /\ (lastOk.serial > 0
           /\ lastOk.expires_in < _TOKEN_EXPIRATION_SAFETY_BUFFER)
        => /\ token_expires_on.sec < lastOk.at
           /\ token_expires_on.sec < clock
    /\ \A c \in callers :
           (decided[c].set /\ decided[c].issued.serial > 0
               /\ decided[c].issued.expires_in < _TOKEN_EXPIRATION_SAFETY_BUFFER)
           => /\ now[c].sec >= decided[c].issued.at
              /\ decided[c].refresh
              /\ pc[c] \in {"set_auth", "set_expiry", "resource_request", "done"}
                     => Cardinality(Posts(c)) = 1

\* a call in the very second in which a token with expires_in = 59 was obtained
C18_Witness ==
    \E c \in callers :
        /\ pc[c] = "done"
        /\ decided[c].set
        /\ decided[c].issued.serial > 0
        /\ decided[c].issued.expires_in = 59
        /\ now[c].sec = decided[c].issued.at
        /\ Cardinality(Posts(c)) = 1
        /\ Cardinality(Gets(c)) = 1

====
